---- MODULE Spec2Model ----
(***************************************************************************)
(* Model of the two service features of chat-with-video:                   *)
(*   audio_extraction : extract_audio_from_video -> ExtractAudioUseCase    *)
(*                      -> FFmpegAudioExtractor (subprocess to ffmpeg)     *)
(*   transcription    : transcribe_audio -> CreateTranscriptionUseCase     *)
(*                      -> WhisperTranscriber (whisper model)              *)
(* A single synchronous caller issues calls one after the other; every    *)
(* call is stepped statement group by statement group, so that the file    *)
(* system and the ffmpeg binary can be observed between the steps.         *)
(*                                                                         *)
(* Strings are sequences of tokens ("/" and "." are tokens of their own),  *)
(* paths are what pathlib makes of them, the file system maps absolute     *)
(* part sequences to a node kind.                                          *)
(***************************************************************************)
EXTENDS Naturals, Sequences, FiniteSets, TLC

VARIABLES
    fs,        \* file system: absolute parts -> "absent" | "dir" | "empty" | "file"
    binary,    \* environment: is ffmpeg on the PATH right now
    pc,        \* position of the caller / of the running service call
    args,      \* arguments of the running call
    loc,       \* locals and adapter fields of the running call
    exc,       \* exception in flight inside the service function's try block
    outcome,   \* how the last call ended: returned value or raised error
    cnt,       \* per-call counters: adapters, jobs, port invocations, tool runs
    hist       \* the previous finished call and the file system snapshots

vars == <<fs, binary, pc, args, loc, exc, outcome, cnt, hist>>

\* ------------------------------------------------------------------ bounds

\* Number of service calls the caller issues in one behaviour.
MaxCalls == 2

\* ----------------------------------------------------------------- strings

Range(s) == {s[i] : i \in 1..Len(s)}

\* Python values the caller passes: None, a str, or a Path built from a str.
None == [tag |-> "None", val |-> <<>>]
Str(s) == [tag |-> "str", val |-> s]
PathObj(s) == [tag |-> "Path", val |-> s]

\* Python truthiness: None and "" are falsy, a Path object is always truthy.
Truthy(x) ==
    CASE x.tag = "None" -> FALSE
      [] x.tag = "str" -> Len(x.val) > 0
      [] OTHER -> TRUE

\* ------------------------------------------------------------------- paths

\* Components of a "/"-separated string, empty components kept.
RECURSIVE SplitSlash(_, _, _)
SplitSlash(s, i, cur) ==
    IF i > Len(s) THEN <<cur>>
    ELSE IF s[i] = "/" THEN <<cur>> \o SplitSlash(s, i + 1, <<>>)
    ELSE SplitSlash(s, i + 1, Append(cur, s[i]))

\* pathlib.Path(str): anchor, and the components with "" and "." dropped.
PathParse(s) ==
    [abs |-> Len(s) > 0 /\ s[1] = "/",
     parts |-> SelectSeq(SplitSlash(s, 1, <<>>),
                         LAMBDA c : c # <<>> /\ c # <<".">>)]

\* Path(x) for a str or a Path argument.
Path(x) == PathParse(x.val)

\* PurePath.name: the last component, "" when there is none.
PathName(p) == IF p.parts = <<>> THEN <<>> ELSE p.parts[Len(p.parts)]

\* str.rfind("."), 1-based, 0 when absent.
RFindDot(name) ==
    LET dots == {i \in 1..Len(name) : name[i] = "."}
    IN IF dots = {} THEN 0 ELSE CHOOSE i \in dots : \A j \in dots : j <= i

\* PurePath.suffix: from the last dot, unless it leads or ends the name.
PathSuffix(p) ==
    LET name == PathName(p)
        i == RFindDot(name)
    IN IF 1 < i /\ i < Len(name) THEN SubSeq(name, i, Len(name)) ELSE <<>>

\* PurePath.stem.
PathStem(p) ==
    LET name == PathName(p)
        i == RFindDot(name)
    IN IF 1 < i /\ i < Len(name) THEN SubSeq(name, 1, i - 1) ELSE name

\* PurePath.with_suffix(suffix): ValueError on an empty name.
WithSuffix(p, suffix) ==
    IF PathName(p) = <<>> THEN [err |-> "ValueError", path |-> p]
    ELSE [err |-> "none",
          path |-> [p EXCEPT !.parts[Len(p.parts)] = PathStem(p) \o suffix]]

\* PurePath.parent: the path itself when it has no component.
PathParent(p) ==
    IF p.parts = <<>> THEN p
    ELSE [p EXCEPT !.parts = SubSeq(p.parts, 1, Len(p.parts) - 1)]

\* The process's working directory, /w.
Cwd == << <<"w">> >>

\* Path.resolve(): the absolute path (no symlinks, no ".." in this model).
Resolve(p) == [abs |-> TRUE, parts |-> IF p.abs THEN p.parts ELSE Cwd \o p.parts]

\* str(path) of an absolute path: "/" before every component.
RECURSIVE JoinParts(_)
JoinParts(parts) ==
    IF parts = <<>> THEN <<>>
    ELSE <<"/">> \o Head(parts) \o JoinParts(Tail(parts))

PathStr(p) ==
    IF p.abs THEN (IF p.parts = <<>> THEN <<"/">> ELSE JoinParts(p.parts))
    ELSE IF p.parts = <<>> THEN <<".">>
    ELSE Tail(JoinParts(p.parts))

\* ------------------------------------------------------------- file system

\* Strings the caller can pass.
S_empty == <<>>
S_v_mp4 == <<"v", ".", "mp4">>
S_abs_v_mp4 == <<"/", "w", "/", "v", ".", "mp4">>
S_v == <<"v">>
S_d == <<"d">>
S_gone_mp4 == <<"gone", ".", "mp4">>
S_v_mp3 == <<"v", ".", "mp3">>
S_o_mp3 == <<".", "/", "o", ".", "mp3">>
S_new_sub_o_mp3 == <<"new", "/", "sub", "/", "o", ".", "mp3">>
S_f_o_mp3 == <<"f", "/", "o", ".", "mp3">>

\* video_file_path values: a video, the same video by its absolute path, a
\* video without extension, a directory, a missing file, the empty string,
\* and the file the default output of v.mp4 lands on.
VideoInputs ==
    {Str(S_v_mp4), PathObj(S_abs_v_mp4), Str(S_v), Str(S_d), Str(S_gone_mp4),
     Str(S_empty), Str(S_v_mp3)}

\* output_audio_path values: omitted, the empty string, a file in the working
\* directory, a file under directories that do not exist yet, a file under a
\* regular file, an existing directory, the input video itself.
OutputInputs ==
    {None, Str(S_empty), Str(S_o_mp3), PathObj(S_new_sub_o_mp3), Str(S_f_o_mp3),
     Str(S_d), Str(S_v_mp4)}

\* audio_file_path values of transcribe_audio.
AudioInputs == {Str(S_v_mp3), PathObj(S_o_mp3), Str(S_d), Str(S_gone_mp4)}

\* configured default format (settings.DEFAULT_OUTPUT_FORMAT) and quality flags
DEFAULT_OUTPUT_FORMAT == <<"mp3">>
FFMPEG_AUDIO_QUALITY_FLAGS == << <<"-q:a">>, <<"0">> >>

Prefixes(parts) == {SubSeq(parts, 1, n) : n \in 0..Len(parts)}

\* Every path a call can touch: the inputs, the outputs, the default outputs.
CandidatePaths ==
    {Path(x) : x \in (VideoInputs \cup OutputInputs \cup AudioInputs) \ {None}}
    \cup {WithSuffix(Path(x), <<".">> \o DEFAULT_OUTPUT_FORMAT).path : x \in VideoInputs}

Nodes == UNION {Prefixes(Resolve(p).parts) : p \in CandidatePaths}

\* The file system before the first call: /w holds the videos v.mp4 and v,
\* the directory d and the regular file f.
InitialFs ==
    [n \in Nodes |->
        IF n \in {<<>>, Cwd, Cwd \o << <<"d">> >>} THEN "dir"
        ELSE IF n \in {Cwd \o <<S_v_mp4>>, Cwd \o <<S_v>>, Cwd \o << <<"f">> >>}
        THEN "file"
        ELSE "absent"]

\* Path.exists() and Path.is_file() as the operating system answers them.
Exists(f, p) == f[Resolve(p).parts] # "absent"
IsFile(f, p) == f[Resolve(p).parts] \in {"empty", "file"}
IsNonEmptyFile(f, p) == f[Resolve(p).parts] = "file"

Front(parts) == SubSeq(parts, 1, Len(parts) - 1)

\* Path.mkdir(parents=True, exist_ok=True) on absolute parts.
RECURSIVE Mkdir(_, _)
Mkdir(f, parts) ==
    IF f[parts] = "dir" THEN [err |-> "none", fs |-> f]
    ELSE IF f[parts] # "absent" THEN [err |-> "FileExistsError", fs |-> f]
    ELSE IF f[Front(parts)] = "dir"
    THEN [err |-> "none", fs |-> [f EXCEPT ![parts] = "dir"]]
    ELSE IF f[Front(parts)] # "absent"
    THEN [err |-> "NotADirectoryError", fs |-> f]
    ELSE LET up == Mkdir(f, Front(parts))
         IN IF up.err # "none" THEN [err |-> "NotADirectoryError", fs |-> f]
            ELSE [err |-> "none", fs |-> [up.fs EXCEPT ![parts] = "dir"]]

\* -------------------------------------------------------------- exceptions

\* The classes an exception is an instance of (its class and its bases).
Mro(cls) ==
    CASE cls \in {"VideoFileNotFoundError", "FFmpegExecutionError",
                  "FFmpegBinaryNotFoundError"}
            -> {cls, "AudioExtractionError", "Exception"}
      [] cls \in {"AudioFileNotFoundError", "WhisperModelError"}
            -> {cls, "TranscriptionError", "Exception"}
      [] cls \in {"FileExistsError", "NotADirectoryError", "PermissionError",
                  "FileNotFoundError"}
            -> {cls, "OSError", "Exception"}
      [] OTHER -> {cls, "Exception"}

IsInstance(e, cls) == cls \in Mro(e.cls)

\* An exception: its class, the texts its message carries, where it was raised.
Exc(cls, msg, at) == [cls |-> cls, msg |-> msg, at |-> at]
NoExc == Exc("none", {}, "none")

\* The first except clause of a try statement that matches e, "uncaught" if none.
RECURSIVE FirstMatch(_, _)
FirstMatch(clauses, e) ==
    IF clauses = <<>> THEN "uncaught"
    ELSE IF IsInstance(e, Head(clauses).cls) THEN Head(clauses).do
    ELSE FirstMatch(Tail(clauses), e)

\* ---------------------------------------------------- the external ffmpeg

\* ffmpeg reads its command line: the input follows -i, the output is the
\* positional argument, -y anywhere allows overwriting.
CmdInput(command) ==
    LET i == CHOOSE k \in 1..Len(command) : command[k] = <<"-i">>
    IN PathParse(command[i + 1])
CmdOverwrite(command) == <<"-y">> \in Range(command)
CmdOutput(command) ==
    LET pos == {k \in 2..Len(command) :
                   /\ command[k][1] = "/"
                   /\ command[k - 1] # <<"-i">>}
    IN PathParse(command[CHOOSE k \in pos : TRUE])

\* Can ffmpeg open the output for writing at all.
Writable(f, command) ==
    LET out == CmdOutput(command).parts
    IN /\ f[out] # "dir"
       /\ f[Front(out)] = "dir"
       /\ out # CmdInput(command).parts
       /\ (f[out] = "absent" \/ CmdOverwrite(command))

\* How long a run of ffmpeg can take, in seconds: a short run, a run that ends
\* exactly at the ten minutes, and a run that needs longer.
Durations == {1, 600, 601}

\* The file system an unfinished run can leave behind: the output untouched,
\* truncated or partially written.
PartialFs(f, command) ==
    IF Writable(f, command)
    THEN {f, [f EXCEPT ![CmdOutput(command).parts] = "empty"],
          [f EXCEPT ![CmdOutput(command).parts] = "file"]}
    ELSE {f}

\* What one run of ffmpeg can do: exit status, captured texts, file system
\* after it. Exit 0 writes the whole output file; a failing or killed run
\* leaves the output untouched, truncated or partially written; without -y an
\* existing output is refused ("already exists").
Ffmpeg(f, command) ==
    LET out == CmdOutput(command).parts
    IN  {[returncode |-> 0, stdout |-> "out_text", stderr |-> "banner_text",
          seconds |-> s, fs |-> [f EXCEPT ![out] = "file"]] :
            s \in IF Writable(f, command) /\ f[CmdInput(command).parts] = "file"
                  THEN Durations ELSE {}}
        \cup
        {[returncode |-> 1, stdout |-> "out_text",
          stderr |-> IF f[out] \in {"empty", "file"} /\ ~CmdOverwrite(command)
                     THEN "already exists" ELSE "error_text",
          seconds |-> s, fs |-> g] : s \in Durations, g \in PartialFs(f, command)}

\* subprocess.run(command, capture_output=True, text=True, check=True,
\* timeout=...): the completed process, or the exception it raises. A run that
\* needs longer than the timeout is killed and raises TimeoutExpired.
SubprocessRun(f, bin, command, timeout) ==
    IF ~bin THEN {[raises |-> "FileNotFoundError", returncode |-> 0,
                   stdout |-> "", stderr |-> "", timeout |-> timeout, fs |-> f]}
    ELSE {[raises |-> IF r.returncode = 0 THEN "none" ELSE "CalledProcessError",
           returncode |-> r.returncode, stdout |-> r.stdout, stderr |-> r.stderr,
           timeout |-> timeout, fs |-> r.fs] :
              r \in {x \in Ffmpeg(f, command) : x.seconds <= timeout}}
         \cup
         {[raises |-> "TimeoutExpired", returncode |-> 0, stdout |-> "",
           stderr |-> "", timeout |-> timeout, fs |-> g] :
              g \in IF \E x \in Ffmpeg(f, command) : x.seconds > timeout
                    THEN PartialFs(f, command) ELSE {}}
         \cup
         {[raises |-> "PermissionError", returncode |-> 0, stdout |-> "",
           stderr |-> "", timeout |-> timeout, fs |-> f]}

\* ----------------------------------------------------------- call state

NoPath == [abs |-> FALSE, parts |-> <<>>]
NoJob == [video_file_path |-> NoPath, output_audio_path |-> NoPath,
          audio_quality_flags |-> <<>>]
NoTJob == [audio_file_path |-> NoPath, language |-> None, use_fp16 |-> TRUE]
\* The loaded whisper model (its device), and the arguments of one call of
\* model.transcribe: the audio path string and the fp16 flag.
NoModel == [device |-> "none"]
NoInvocation == [audio |-> <<>>, fp16 |-> FALSE]
NoResult == [text |-> "", language |-> "", segments |-> <<>>]

\* What subprocess.run gave: the exception it raised ("none" for a completed
\* process, "notrun" before the run), the exit status and the captured texts.
NoProc == [raises |-> "notrun", returncode |-> 0, stdout |-> "", stderr |-> "",
           timeout |-> 0]

NoLoc ==
    [ffmpeg_binary |-> <<>>, video_path_obj |-> NoPath, output_path_obj |-> NoPath,
     audio_path_obj |-> NoPath,
     job |-> NoJob, command |-> <<>>, proc |-> NoProc,
     tjob |-> NoTJob, model |-> NoModel, invocation |-> NoInvocation]

NoArgs == [feature |-> "none", video_file_path |-> None, output_audio_path |-> None,
           audio_file_path |-> None]

\* How a call ended: kind is "pending", "returned" or "raised"; a returned
\* value is None, a Path or a TranscriptionResult.
Pending == [kind |-> "pending", value |-> "None", path |-> NoPath,
            result |-> NoResult, exc |-> NoExc]
ReturnedNone == [Pending EXCEPT !.kind = "returned"]
ReturnedPath(p) == [Pending EXCEPT !.kind = "returned", !.value = "Path", !.path = p]
ReturnedResult(r) ==
    [Pending EXCEPT !.kind = "returned", !.value = "TranscriptionResult", !.result = r]
Raised(e) == [Pending EXCEPT !.kind = "raised", !.exc = e]

\* The empty dict.
EmptyDict == [k \in {} |-> ""]

NoCnt == [adapters |-> 0, jobs |-> 0, port |-> 0, runs |-> 0, validated |-> 0]

NoPrev == [feature |-> "none", video_file_path |-> None, output_audio_path |-> None,
           value |-> "None", path |-> NoPath]

Init ==
    /\ fs = InitialFs
    /\ binary \in BOOLEAN
    /\ pc = "idle"
    /\ args = NoArgs
    /\ loc = NoLoc
    /\ exc = NoExc
    /\ outcome = Pending
    /\ cnt = NoCnt
    /\ hist = [calls |-> 0, fs0 |-> InitialFs, prev |-> NoPrev, dict |-> EmptyDict]

\* The environment installs or removes ffmpeg at any moment.
BinaryChange ==
    /\ binary' = ~binary
    /\ UNCHANGED <<fs, pc, args, loc, exc, outcome, cnt, hist>>

\* What the caller remembers of the call that just ended.
Remember ==
    [hist EXCEPT !.calls = @ + 1, !.fs0 = fs, !.dict = EmptyDict,
                 !.prev = [feature |-> args.feature,
                           video_file_path |-> args.video_file_path,
                           output_audio_path |-> args.output_audio_path,
                           value |-> outcome.value, path |-> outcome.path]]

\* ------------------------------------------------------- audio extraction

\* The caller calls extract_audio_from_video(video_file_path, output_audio_path).
CallExtract ==
    /\ pc = "idle"
    /\ hist.calls < MaxCalls
    /\ \E v \in VideoInputs, o \in OutputInputs :
          args' = [NoArgs EXCEPT !.feature = "extract", !.video_file_path = v,
                                 !.output_audio_path = o]
    /\ pc' = "e_init"
    /\ loc' = NoLoc
    /\ exc' = NoExc
    /\ outcome' = Pending
    /\ cnt' = NoCnt
    /\ hist' = Remember
    /\ UNCHANGED <<fs, binary>>

\* shutil.which("ffmpeg"): the binary's location, None (empty) when not on PATH.
find_ffmpeg(bin) == IF bin THEN <<"/", "usr", "/", "bin", "/", "ffmpeg">> ELSE <<>>

\* Mutant: the constructor does not check what it resolved.
FFmpegAudioExtractorInitUnchecked(ffmpeg_path, bin) ==
    [err |-> "none",
     ffmpeg_binary |-> IF ffmpeg_path # <<>> THEN ffmpeg_path ELSE find_ffmpeg(bin)]

\* FFmpegAudioExtractor.__init__: ffmpeg_path or _find_ffmpeg(), an error when
\* that is falsy.
FFmpegAudioExtractorInit(ffmpeg_path, bin) ==
    LET ffmpeg_binary == IF ffmpeg_path # <<>> THEN ffmpeg_path ELSE find_ffmpeg(bin)
    IN IF ffmpeg_binary = <<>>
       THEN [err |-> "FFmpegBinaryNotFoundError", ffmpeg_binary |-> <<>>]
       ELSE [err |-> "none", ffmpeg_binary |-> ffmpeg_binary]

\* api.py: extractor = FFmpegAudioExtractor(); use_case = ExtractAudioUseCase(extractor)
\* Mutant: the service looks at the video file before it builds the adapter.
ExtractConstructValidatingFirst ==
    /\ pc = "e_init"
    /\ IF ~Exists(fs, Path(args.video_file_path))
       THEN /\ exc' = Exc("VideoFileNotFoundError", {"video file"}, "validate")
            /\ pc' = "e_except"
            /\ UNCHANGED <<loc, cnt>>
       ELSE LET r == FFmpegAudioExtractorInit(<<>>, binary)
            IN IF r.err # "none"
               THEN /\ exc' = Exc(r.err, {"not found in PATH"}, "init")
                    /\ pc' = "e_except"
                    /\ UNCHANGED <<loc, cnt>>
               ELSE /\ loc' = [loc EXCEPT !.ffmpeg_binary = r.ffmpeg_binary]
                    /\ cnt' = [cnt EXCEPT !.adapters = @ + 1]
                    /\ pc' = "e_paths"
                    /\ exc' = exc
    /\ UNCHANGED <<fs, binary, args, outcome, hist>>

ExtractConstruct ==
    /\ pc = "e_init"
    /\ LET r == FFmpegAudioExtractorInit(<<>>, binary)
       IN IF r.err # "none"
          THEN /\ exc' = Exc(r.err, {"not found in PATH"}, "init")
               /\ pc' = "e_except"
               /\ UNCHANGED <<loc, cnt>>
          ELSE /\ loc' = [loc EXCEPT !.ffmpeg_binary = r.ffmpeg_binary]
               /\ cnt' = [cnt EXCEPT !.adapters = @ + 1]
               /\ pc' = "e_paths"
               /\ exc' = exc
    /\ UNCHANGED <<fs, binary, args, outcome, hist>>

\* Mutant: the default output takes the video's format instead of the audio's.
OutputPathObjWrongFormat(video_path_obj, output_audio_path) ==
    IF Truthy(output_audio_path)
    THEN [err |-> "none", path |-> Path(output_audio_path)]
    ELSE WithSuffix(video_path_obj, <<".", "mp4">>)

\* api.py: the output path is the one given when it is truthy, otherwise the
\* video path with the default format as its suffix.
OutputPathObj(video_path_obj, output_audio_path) ==
    IF Truthy(output_audio_path)
    THEN [err |-> "none", path |-> Path(output_audio_path)]
    ELSE WithSuffix(video_path_obj, <<".">> \o DEFAULT_OUTPUT_FORMAT)

\* api.py: video_path_obj, output_path_obj.
ExtractPaths ==
    /\ pc = "e_paths"
    /\ LET v == Path(args.video_file_path)
           o == OutputPathObj(v, args.output_audio_path)
       IN IF o.err # "none"
          THEN /\ exc' = Exc(o.err, {"empty name"}, "paths")
               /\ pc' = "e_except"
               /\ loc' = [loc EXCEPT !.video_path_obj = v]
          ELSE /\ loc' = [loc EXCEPT !.video_path_obj = v, !.output_path_obj = o.path]
               /\ pc' = "e_execute"
               /\ exc' = exc
    /\ UNCHANGED <<fs, binary, args, outcome, cnt, hist>>

\* Mutant: the is_file check is missing.
ValidateVideoExistsOnly(f, video_path) ==
    IF ~Exists(f, video_path) THEN "VideoFileNotFoundError" ELSE "none"

\* ExtractAudioUseCase.execute, step 1: the source must exist and be a file.
ValidateVideo(f, video_path) ==
    IF ~Exists(f, video_path) THEN "VideoFileNotFoundError"
    ELSE IF ~IsFile(f, video_path) THEN "VideoFileNotFoundError"
    ELSE "none"

\* ExtractAudioUseCase.execute, steps 1 and 2: validation, then the job.
ExtractExecute ==
    /\ pc = "e_execute"
    /\ LET err == ValidateVideo(fs, loc.video_path_obj)
       IN IF err # "none"
          THEN /\ exc' = Exc(err, {"video file"}, "validate")
               /\ pc' = "e_except"
               /\ UNCHANGED <<loc, cnt>>
          ELSE /\ loc' = [loc EXCEPT !.job =
                            [video_file_path |-> loc.video_path_obj,
                             output_audio_path |-> loc.output_path_obj,
                             audio_quality_flags |-> FFMPEG_AUDIO_QUALITY_FLAGS]]
               /\ cnt' = [cnt EXCEPT !.jobs = @ + 1, !.validated = 1]
               /\ pc' = "e_extract"
               /\ exc' = exc
    /\ UNCHANGED <<fs, binary, args, outcome, hist>>

\* Mutant: the overwrite flag is not passed.
BuildCommandNoOverwrite(ffmpeg_binary, job) ==
    <<ffmpeg_binary, <<"-i">>, PathStr(Resolve(job.video_file_path)), <<"-vn">>>>
    \o job.audio_quality_flags
    \o <<PathStr(Resolve(job.output_audio_path))>>

\* FFmpegAudioExtractor.extract: the command line.
BuildCommand(ffmpeg_binary, job) ==
    <<ffmpeg_binary, <<"-i">>, PathStr(Resolve(job.video_file_path)), <<"-vn">>>>
    \o job.audio_quality_flags
    \o <<PathStr(Resolve(job.output_audio_path)), <<"-y">>>>

\* Mutant: the output directory is not created.
EnsureOutputDirSkipped(f, job) == [err |-> "none", fs |-> f]

\* FFmpegAudioExtractor.extract:
\* job.output_audio_path.parent.mkdir(parents=True, exist_ok=True)
EnsureOutputDir(f, job) == Mkdir(f, Resolve(PathParent(job.output_audio_path)).parts)

\* FFmpegAudioExtractor.extract, up to the try block: the use case invokes the
\* port, which creates the output directory and builds the command.
ExtractPrepare ==
    /\ pc = "e_extract"
    /\ cnt' = [cnt EXCEPT !.port = @ + 1]
    /\ LET m == EnsureOutputDir(fs, loc.job)
       IN IF m.err # "none"
          THEN /\ exc' = Exc(m.err, {"mkdir"}, "mkdir")
               /\ pc' = "e_except"
               /\ UNCHANGED <<fs, loc>>
          ELSE /\ fs' = m.fs
               /\ loc' = [loc EXCEPT !.command = BuildCommand(loc.ffmpeg_binary, loc.job)]
               /\ pc' = "e_run"
               /\ exc' = exc
    /\ UNCHANGED <<binary, args, outcome, hist>>

\* Mutant: a non-zero exit status is not treated as a failure.
ExtractTranslateIgnoreExit(r) ==
    CASE r.raises \in {"none", "CalledProcessError"} -> NoExc
      [] r.raises = "FileNotFoundError" ->
            Exc("FFmpegBinaryNotFoundError", {"binary not found"}, "run")
      [] r.raises = "TimeoutExpired" ->
            Exc("FFmpegExecutionError", {"timed out"}, "run")
      [] OTHER -> Exc(r.raises, {}, "run")

\* Mutant: a timeout is not translated and leaves extract as it is.
ExtractTranslateTimeoutRaw(r) ==
    CASE r.raises = "none" -> NoExc
      [] r.raises = "CalledProcessError" ->
            Exc("FFmpegExecutionError", {"exit code", r.stderr, r.stdout}, "run")
      [] r.raises = "FileNotFoundError" ->
            Exc("FFmpegBinaryNotFoundError", {"binary not found"}, "run")
      [] OTHER -> Exc(r.raises, {}, "run")

\* FFmpegAudioExtractor.extract, the except clauses around subprocess.run.
\* Mutant: a run stopped by the timeout is taken for a finished run.
ExtractTranslateSwallowTimeout(r) ==
    CASE r.raises = "none" -> NoExc
      [] r.raises = "CalledProcessError" ->
            Exc("FFmpegExecutionError", {"exit code", r.stderr, r.stdout}, "run")
      [] r.raises = "FileNotFoundError" ->
            Exc("FFmpegBinaryNotFoundError", {"binary not found"}, "run")
      [] r.raises = "TimeoutExpired" -> NoExc
      [] OTHER -> Exc(r.raises, {}, "run")

ExtractTranslate(r) ==
    CASE r.raises = "none" -> NoExc
      [] r.raises = "CalledProcessError" ->
            Exc("FFmpegExecutionError", {"exit code", r.stderr, r.stdout}, "run")
      [] r.raises = "FileNotFoundError" ->
            Exc("FFmpegBinaryNotFoundError", {"binary not found"}, "run")
      [] r.raises = "TimeoutExpired" ->
            Exc("FFmpegExecutionError", {"timed out"}, "run")
      [] OTHER -> Exc(r.raises, {}, "run")

\* subprocess.run(..., timeout=600)
RUN_TIMEOUT == 600

\* FFmpegAudioExtractor.extract, the try block: one run of the tool.
ExtractRun ==
    /\ pc = "e_run"
    /\ \E r \in SubprocessRun(fs, binary, loc.command, RUN_TIMEOUT) :
          /\ fs' = r.fs
          /\ loc' = [loc EXCEPT !.proc = [raises |-> r.raises,
                                           returncode |-> r.returncode,
                                           stdout |-> r.stdout, stderr |-> r.stderr,
                                           timeout |-> r.timeout]]
          /\ exc' = ExtractTranslate(r)
          /\ pc' = IF ExtractTranslate(r) = NoExc THEN "e_return" ELSE "e_except"
    /\ cnt' = [cnt EXCEPT !.runs = @ + 1]
    /\ UNCHANGED <<binary, args, outcome, hist>>

\* Mutant: the use case returns a path taken from the job's input.
ExecuteResultVideoPath(output_path, job) == job.video_file_path

\* ExtractAudioUseCase.execute, step 4: the value it returns.
ExecuteResult(output_path, job) == output_path

\* api.py: return created_audio_file.
ExtractReturn ==
    /\ pc = "e_return"
    /\ outcome' = ReturnedPath(ExecuteResult(loc.output_path_obj, loc.job))
    /\ pc' = "idle"
    /\ UNCHANGED <<fs, binary, args, loc, exc, cnt, hist>>

\* Mutant: the catch-all clause is missing.
ExtractClausesNoCatchAll ==
    <<[cls |-> "FFmpegBinaryNotFoundError", do |-> "raise"],
      [cls |-> "AudioExtractionError", do |-> "none"]>>

\* Mutant: the base class is caught before its subclass.
ExtractClausesBaseFirst ==
    <<[cls |-> "AudioExtractionError", do |-> "none"],
      [cls |-> "FFmpegBinaryNotFoundError", do |-> "raise"],
      [cls |-> "Exception", do |-> "none"]>>

\* api.py: the except clauses of extract_audio_from_video, in order.
ExtractClauses ==
    <<[cls |-> "FFmpegBinaryNotFoundError", do |-> "raise"],
      [cls |-> "AudioExtractionError", do |-> "none"],
      [cls |-> "Exception", do |-> "none"]>>

\* What a service function makes of an exception, given its except clauses.
Handle(clauses, e) ==
    IF FirstMatch(clauses, e) = "none" THEN ReturnedNone ELSE Raised(e)

\* Mutant: an execution failure sends the call back to the port once more.
ExtractExceptRetry ==
    /\ pc = "e_except"
    /\ IF exc.cls = "FFmpegExecutionError"
       THEN /\ pc' = "e_extract"
            /\ exc' = NoExc
            /\ outcome' = outcome
       ELSE /\ outcome' = Handle(ExtractClauses, exc)
            /\ pc' = "idle"
            /\ exc' = exc
    /\ UNCHANGED <<fs, binary, args, loc, cnt, hist>>

\* api.py: the except clauses applied to the exception in flight.
ExtractExcept ==
    /\ pc = "e_except"
    /\ outcome' = Handle(ExtractClauses, exc)
    /\ pc' = "idle"
    /\ UNCHANGED <<fs, binary, args, loc, exc, cnt, hist>>

\* ----------------------------------------------------------- transcription

\* The caller calls transcribe_audio(audio_file_path).
CallTranscribe ==
    /\ pc = "idle"
    /\ hist.calls < MaxCalls
    /\ \E a \in AudioInputs :
          args' = [NoArgs EXCEPT !.feature = "transcribe", !.audio_file_path = a]
    /\ pc' = "t_init"
    /\ loc' = NoLoc
    /\ exc' = NoExc
    /\ outcome' = Pending
    /\ cnt' = NoCnt
    /\ hist' = Remember
    /\ UNCHANGED <<fs, binary>>

\* What whisper.load_model can do: a model on the cpu, or an exception.
LoadOutcomes == {"loaded", "RuntimeError", "OutOfMemoryError"}

\* whisper.load_model(self.model_name, device="cpu")
LOAD_DEVICE == "cpu"

\* WhisperTranscriber._load_model: every exception becomes WhisperModelError.
load_model(r) == IF r = "loaded" THEN "none" ELSE "WhisperModelError"

\* api.py: transcriber = WhisperTranscriber(model_name); use_case = ...
TranscribeConstruct ==
    /\ pc = "t_init"
    /\ \E r \in LoadOutcomes :
          IF load_model(r) # "none"
          THEN /\ exc' = Exc(load_model(r), {"failed to load", r}, "init")
               /\ pc' = "t_except"
               /\ UNCHANGED <<cnt, loc>>
          ELSE /\ cnt' = [cnt EXCEPT !.adapters = @ + 1]
               /\ loc' = [loc EXCEPT !.audio_path_obj = Path(args.audio_file_path),
                                      !.model = [device |-> LOAD_DEVICE]]
               /\ pc' = "t_execute"
               /\ exc' = exc
    /\ UNCHANGED <<fs, binary, args, outcome, hist>>

\* CreateTranscriptionUseCase.execute, step 1.
ValidateAudio(f, audio_path) ==
    IF ~Exists(f, audio_path) THEN "AudioFileNotFoundError"
    ELSE IF ~IsFile(f, audio_path) THEN "AudioFileNotFoundError"
    ELSE "none"

\* TranscriptionJob(audio_file_path=...): language and use_fp16 take their
\* defaults, None (auto-detect) and True.
TranscriptionJob(audio_path) ==
    [audio_file_path |-> audio_path, language |-> None, use_fp16 |-> TRUE]

\* CreateTranscriptionUseCase.execute, steps 1 and 2.
TranscribeExecute ==
    /\ pc = "t_execute"
    /\ LET err == ValidateAudio(fs, loc.audio_path_obj)
       IN IF err # "none"
          THEN /\ exc' = Exc(err, {"audio file"}, "validate")
               /\ pc' = "t_except"
               /\ cnt' = cnt
               /\ loc' = loc
          ELSE /\ cnt' = [cnt EXCEPT !.jobs = @ + 1, !.validated = 1]
               /\ loc' = [loc EXCEPT !.tjob = TranscriptionJob(loc.audio_path_obj)]
               /\ pc' = "t_transcribe"
               /\ exc' = exc
    /\ UNCHANGED <<fs, binary, args, outcome, hist>>

\* The records model.transcribe can return: text, language and segments are
\* each present or missing.
Segment == [start |-> 0, end |-> 1, text |-> "hello"]
ModelRecords ==
    {t @@ l @@ s :
        t \in {EmptyDict} \cup {("text" :> x) : x \in {"", "hello"}},
        l \in {EmptyDict} \cup {("language" :> x) : x \in {"en"}},
        s \in {EmptyDict} \cup {("segments" :> x) : x \in {<<>>, <<Segment>>}}}

\* dict.get(key, default)
Get(d, key, default) == IF key \in DOMAIN d THEN d[key] ELSE default

\* Mutant: a missing language defaults to the empty string.
MapResultLanguageEmpty(result_dict) ==
    [text |-> Get(result_dict, "text", ""),
     language |-> Get(result_dict, "language", ""),
     segments |-> Get(result_dict, "segments", <<>>)]

\* Mutant: the text is read under a key the record does not have.
MapResultWrongTextKey(result_dict) ==
    [text |-> Get(result_dict, "transcript", ""),
     language |-> Get(result_dict, "language", "unknown"),
     segments |-> Get(result_dict, "segments", <<>>)]

\* WhisperTranscriber.transcribe: the dict mapped to the domain model.
MapResult(result_dict) ==
    [text |-> Get(result_dict, "text", ""),
     language |-> Get(result_dict, "language", "unknown"),
     segments |-> Get(result_dict, "segments", <<>>)]

\* WhisperTranscriber.transcribe: every exception of the try block becomes
\* TranscriptionError.
\* Mutant: a failure of the model call is reported as a model-load error.
TranscribeTranslateAsModelError(raises) ==
    IF raises = "none" THEN NoExc
    ELSE Exc("WhisperModelError", {"transcription failed", raises}, "run")

TranscribeTranslate(raises) ==
    IF raises = "none" THEN NoExc
    ELSE Exc("TranscriptionError", {"transcription failed", raises}, "run")

\* Mutant: the flag follows the job's preference.
UseFp16FromJob(model, job) == job.use_fp16

\* WhisperTranscriber.transcribe: use_fp16 = self.model.device.type == 'cuda'
UseFp16(model, job) == model.device = "cuda"

\* WhisperTranscriber.transcribe: the arguments of self.model.transcribe.
ModelInvocation(model, job) ==
    [audio |-> PathStr(Resolve(job.audio_file_path)), fp16 |-> UseFp16(model, job)]

\* WhisperTranscriber.transcribe: one call of the model, then the mapping.
TranscribeRun ==
    /\ pc = "t_transcribe"
    /\ cnt' = [cnt EXCEPT !.port = @ + 1, !.runs = @ + 1]
    /\ loc' = [loc EXCEPT !.invocation = ModelInvocation(loc.model, loc.tjob)]
    /\ \/ \E d \in ModelRecords :
             /\ outcome' = [Pending EXCEPT !.result = MapResult(d)]
             /\ hist' = [hist EXCEPT !.dict = d]
             /\ exc' = exc
             /\ pc' = "t_return"
       \/ \E raises \in {"RuntimeError", "FileNotFoundError"} :
             /\ exc' = TranscribeTranslate(raises)
             /\ pc' = "t_except"
             /\ UNCHANGED <<outcome, hist>>
    /\ UNCHANGED <<fs, binary, args>>

\* api.py: return result.
TranscribeReturn ==
    /\ pc = "t_return"
    /\ outcome' = ReturnedResult(outcome.result)
    /\ pc' = "idle"
    /\ UNCHANGED <<fs, binary, args, loc, exc, cnt, hist>>

\* Mutant: feature errors are re-raised like the model-load error.
TranscribeClausesReraise ==
    <<[cls |-> "WhisperModelError", do |-> "raise"],
      [cls |-> "TranscriptionError", do |-> "raise"],
      [cls |-> "Exception", do |-> "none"]>>

\* api.py: the except clauses of transcribe_audio, in order.
TranscribeClauses ==
    <<[cls |-> "WhisperModelError", do |-> "raise"],
      [cls |-> "TranscriptionError", do |-> "none"],
      [cls |-> "Exception", do |-> "none"]>>

TranscribeExcept ==
    /\ pc = "t_except"
    /\ outcome' = Handle(TranscribeClauses, exc)
    /\ pc' = "idle"
    /\ UNCHANGED <<fs, binary, args, loc, exc, cnt, hist>>

\* ----------------------------------------------------------- specification

Next ==
    \/ BinaryChange
    \/ CallExtract
    \/ ExtractConstruct
    \/ ExtractPaths
    \/ ExtractExecute
    \/ ExtractPrepare
    \/ ExtractRun
    \/ ExtractReturn
    \/ ExtractExcept
    \/ CallTranscribe
    \/ TranscribeConstruct
    \/ TranscribeExecute
    \/ TranscribeRun
    \/ TranscribeReturn
    \/ TranscribeExcept

Spec == Init /\ [][Next]_vars

\* The transcriber used on its own: a WhisperTranscriber that has loaded its
\* model is handed any TranscriptionJob, whatever its language and use_fp16.
InitTranscriber ==
    /\ fs = InitialFs
    /\ binary = TRUE
    /\ pc = "t_transcribe"
    /\ \E a \in AudioInputs, lang \in {None, Str(<<"en">>)}, fp \in BOOLEAN :
          /\ args = [NoArgs EXCEPT !.feature = "transcribe", !.audio_file_path = a]
          /\ loc = [NoLoc EXCEPT !.audio_path_obj = Path(a),
                                 !.model = [device |-> LOAD_DEVICE],
                                 !.tjob = [audio_file_path |-> Path(a),
                                           language |-> lang, use_fp16 |-> fp]]
    /\ exc = NoExc
    /\ outcome = Pending
    /\ cnt = [NoCnt EXCEPT !.adapters = 1, !.jobs = 1, !.validated = 1]
    /\ hist = [calls |-> 1, fs0 |-> InitialFs, prev |-> NoPrev, dict |-> EmptyDict]

NextTranscriber ==
    \/ BinaryChange
    \/ TranscribeRun

SpecTranscriber == InitTranscriber /\ [][NextTranscriber]_vars

\* ------------------------------------------------------------------ claims

ExtractDone == pc = "idle" /\ args.feature = "extract" /\ outcome.kind # "pending"
TranscribeDone == pc = "idle" /\ args.feature = "transcribe" /\ outcome.kind # "pending"

\* The tool ran in this call and exited with status 0.
ToolSucceeded == loc.proc.raises = "none"

\* execute() of the running call's use case has been entered and has validated.
ExecuteRan == cnt.validated = 1 \/ exc.at = "validate"

C2_OnlyModelLoadEscapes ==
    TranscribeDone =>
        /\ outcome.kind = "raised" =>
              /\ outcome.exc.cls = "WhisperModelError"
              /\ outcome.exc.at = "init"
        /\ (exc # NoExc /\ exc.cls # "WhisperModelError") => outcome = ReturnedNone

\* C2 witness: a failure of the model call ended the call with None.
C2_Witness ==
    /\ TranscribeDone
    /\ exc.cls = "TranscriptionError"
    /\ exc.at = "run"
    /\ outcome = ReturnedNone

\* C3: whenever a use case has validated an input path that does not exist or
\* is not a regular file, it has failed with its source-not-found error and
\* the injected port has not been invoked.
C3_InvalidSourceNeverReachesPort ==
    /\ (args.feature = "extract" /\ ExecuteRan
          /\ ~IsFile(hist.fs0, loc.video_path_obj)) =>
            /\ exc.cls = "VideoFileNotFoundError"
            /\ exc.at = "validate"
            /\ cnt.port = 0
    /\ (args.feature = "transcribe" /\ ExecuteRan
          /\ ~IsFile(hist.fs0, loc.audio_path_obj)) =>
            /\ exc.cls = "AudioFileNotFoundError"
            /\ exc.at = "validate"
            /\ cnt.port = 0

\* C3 witness: a directory given as the video ended in the source-not-found error.
C3_Witness ==
    /\ ExtractDone
    /\ args.video_file_path = Str(S_d)
    /\ hist.fs0[Resolve(loc.video_path_obj).parts] = "dir"
    /\ exc.cls = "VideoFileNotFoundError"
    /\ cnt.port = 0

\* C4: a call without an output path whose tool run succeeded returns the
\* video path with its extension replaced by "mp3" (same directory, the stem
\* followed by ".mp3"), and that path is a non-empty file afterwards.
C4_DefaultOutputPath ==
    (ExtractDone /\ args.output_audio_path = None /\ ToolSucceeded) =>
        /\ outcome.kind = "returned"
        /\ outcome.value = "Path"
        /\ outcome.path.abs = Path(args.video_file_path).abs
        /\ Front(outcome.path.parts) = Front(Path(args.video_file_path).parts)
        /\ PathName(outcome.path) = PathStem(Path(args.video_file_path)) \o <<".", "mp3">>
        /\ IsNonEmptyFile(fs, outcome.path)

\* C4 witness: v.mp4 without an output path gave v.mp3.
C4_Witness ==
    /\ ExtractDone
    /\ args.output_audio_path = None
    /\ args.video_file_path = Str(S_v_mp4)
    /\ ToolSucceeded
    /\ outcome = ReturnedPath(PathParse(S_v_mp3))
    /\ hist.fs0[Cwd \o <<S_v_mp3>>] = "absent"

C6_NoBinaryNoSideEffect ==
    (args.feature = "extract" /\ pc # "e_init" /\ loc.ffmpeg_binary = <<>>) =>
        /\ exc.cls = "FFmpegBinaryNotFoundError"
        /\ exc.at = "init"
        /\ fs = hist.fs0
        /\ cnt.port = 0
        /\ cnt.runs = 0
        /\ pc = "idle" => outcome = Raised(exc)

\* C6 witness: the call asked for an output under missing directories, failed
\* at construction, and the directories are still missing.
C6_Witness ==
    /\ ExtractDone
    /\ exc.at = "init"
    /\ outcome.kind = "raised"
    /\ args.video_file_path = Str(S_v_mp4)
    /\ args.output_audio_path = PathObj(S_new_sub_o_mp3)
    /\ fs[Cwd \o << <<"new">> >>] = "absent"

C8_MissingAtInvocationPropagates ==
    (args.feature = "extract" /\ loc.proc.raises = "FileNotFoundError") =>
        /\ loc.ffmpeg_binary # <<>>
        /\ exc.cls = "FFmpegBinaryNotFoundError"
        /\ exc.at = "run"
        /\ pc = "idle" => outcome = Raised(exc)

\* C8 witness: resolved at construction, missing at invocation, raised.
C8_Witness ==
    /\ ExtractDone
    /\ loc.ffmpeg_binary # <<>>
    /\ loc.proc.raises = "FileNotFoundError"
    /\ outcome.kind = "raised"
    /\ cnt.runs = 1

\* C9: the result transcribe returns has the record's text, language and
\* segments where the record has them, and "", "unknown" and the empty sequence
\* where it does not.
C9_ResultMapping ==
    (args.feature = "transcribe" /\ pc \in {"t_return", "idle"} /\ cnt.runs = 1
        /\ exc = NoExc) =>
        /\ outcome.result.text =
              (IF "text" \in DOMAIN hist.dict THEN hist.dict["text"] ELSE "")
        /\ outcome.result.language =
              (IF "language" \in DOMAIN hist.dict THEN hist.dict["language"]
               ELSE "unknown")
        /\ outcome.result.segments =
              (IF "segments" \in DOMAIN hist.dict THEN hist.dict["segments"]
               ELSE <<>>)

\* C9 witness: a record with text only came back with language "unknown".
C9_Witness ==
    /\ TranscribeDone
    /\ outcome.value = "TranscriptionResult"
    /\ DOMAIN hist.dict = {"text"}
    /\ outcome.result = [text |-> "hello", language |-> "unknown", segments |-> <<>>]

\* The running call repeats the previous one, which returned a path: same
\* video, same explicit output path.
RepeatCall ==
    /\ args.feature = "extract"
    /\ hist.prev.feature = "extract"
    /\ hist.prev.value = "Path"
    /\ args.output_audio_path # None
    /\ hist.prev.video_file_path = args.video_file_path
    /\ hist.prev.output_audio_path = args.output_audio_path

\* C10: in a call that repeats a successful one, the existing destination never
\* makes the tool refuse ("already exists"); when the tool is about to run it
\* can exit 0 and leave the file system as it is (the one file, overwritten);
\* and when it did exit 0 the call returns the same path as before, a non-empty
\* file, with no other file added.
C10_RepeatOverwrites ==
    RepeatCall =>
        /\ loc.proc.stderr # "already exists"
        /\ pc = "e_run" =>
              \E r \in SubprocessRun(fs, TRUE, loc.command, RUN_TIMEOUT) :
                  r.raises = "none" /\ r.fs = fs
        /\ (pc = "idle" /\ ToolSucceeded) =>
              /\ outcome = ReturnedPath(hist.prev.path)
              /\ fs = hist.fs0
              /\ IsNonEmptyFile(fs, outcome.path)

\* C10 witness: the second of two identical calls succeeded over the file the
\* first one wrote.
C10_Witness ==
    /\ RepeatCall
    /\ ExtractDone
    /\ ToolSucceeded
    /\ args.output_audio_path = Str(S_o_mp3)
    /\ IsNonEmptyFile(hist.fs0, outcome.path)

\* C11: in every call at most one adapter is constructed, at most one job is
\* built, the port is invoked at most once and the tool or model is run at most
\* once; whatever reaches the use case, the port or the tool was constructed
\* and built in this same call from this call's arguments.
C11_OneJobOnePortCallPerCall ==
    /\ cnt.adapters <= 1
    /\ cnt.jobs <= 1
    /\ cnt.port <= cnt.jobs
    /\ cnt.runs <= cnt.port
    /\ cnt.jobs <= cnt.adapters
    /\ ExecuteRan => cnt.adapters = 1
    /\ (args.feature = "extract" /\ cnt.port = 1) =>
          /\ loc.job.video_file_path = Path(args.video_file_path)
          /\ loc.job.output_audio_path = loc.output_path_obj
          /\ loc.ffmpeg_binary # <<>>
    /\ (args.feature = "transcribe" /\ cnt.port = 1) =>
          loc.tjob.audio_file_path = Path(args.audio_file_path)

\* C11 witness: the second call of a behaviour failed in the tool after the
\* first one had succeeded, with one adapter, one job, one port call, one run.
C11_Witness ==
    /\ ExtractDone
    /\ hist.calls = 2
    /\ hist.prev.value = "Path"
    /\ exc.cls = "FFmpegExecutionError"
    /\ cnt = [adapters |-> 1, jobs |-> 1, port |-> 1, runs |-> 1, validated |-> 1]

\* The model call of this transcription returned a record with recognized
\* speech: a text that is not empty.
RecognizedSpeech ==
    /\ args.feature = "transcribe"
    /\ cnt.runs = 1
    /\ exc = NoExc
    /\ "text" \in DOMAIN hist.dict
    /\ hist.dict["text"] # ""

\* C12: when transcribe_audio ends after a valid input, a successful model load
\* and a model call that recognized speech, it has returned a
\* TranscriptionResult (not None) whose text and language are both non-empty.
C12_SpeechGivesNonEmptyResult ==
    (TranscribeDone /\ RecognizedSpeech) =>
        /\ outcome.kind = "returned"
        /\ outcome.value = "TranscriptionResult"
        /\ outcome.result.text # ""
        /\ outcome.result.language # ""

\* C12 witness: speech recognized in a record without a language field.
C12_Witness ==
    /\ TranscribeDone
    /\ RecognizedSpeech
    /\ "language" \notin DOMAIN hist.dict
    /\ outcome.result.text = "hello"
    /\ outcome.result.language = "unknown"

\* C13: every run of the tool is under a timeout of 600 seconds, and a run
\* that ended in a non-zero exit status or in the timeout has put the
\* execution-failed error in flight: not the binary-not-found error, and the
\* call neither returns from extract normally nor ends with a path.
C13_ExitAndTimeoutAreExecutionErrors ==
    (args.feature = "extract" /\ cnt.runs = 1) =>
        /\ loc.proc.timeout = 600
        /\ loc.proc.raises \in {"CalledProcessError", "TimeoutExpired"} =>
              /\ exc.cls = "FFmpegExecutionError"
              /\ exc.at = "run"
              /\ pc \in {"e_except", "idle"}
              /\ outcome.value # "Path"

\* C13 witness: a run killed by the timeout ended the call with None, the
\* output left truncated.
C13_Witness ==
    /\ ExtractDone
    /\ loc.proc.raises = "TimeoutExpired"
    /\ loc.proc.timeout = 600
    /\ exc.cls = "FFmpegExecutionError"
    /\ outcome = ReturnedNone
    /\ args.output_audio_path = Str(S_o_mp3)
    /\ fs[Cwd \o << <<"o", ".", "mp3">> >>] = "empty"

\* The directory the running extraction writes into, and its ancestors, exist.
OutputDirPresent ==
    \A n \in Prefixes(Resolve(PathParent(loc.job.output_audio_path)).parts) :
        fs[n] = "dir"

\* C14: whenever the tool is about to run or has run, the destination directory
\* and all its parents exist; and from the end of the tool's run to the end of
\* the call no step changes the file system, so a directory created for a run
\* that failed and an output it wrote in part stay as the run left them.
C14_DirBeforeToolNoRollback ==
    /\ [](args.feature = "extract" /\ (pc = "e_run" \/ cnt.runs = 1)
            => OutputDirPresent)
    /\ [][(args.feature = "extract" /\ pc \in {"e_except", "e_return"})
            => fs' = fs]_vars

\* C14 witness: the tool failed under directories the call had created, and
\* the call ended with the directories and a truncated output in place.
C14_Witness ==
    /\ ExtractDone
    /\ loc.proc.raises = "CalledProcessError"
    /\ outcome = ReturnedNone
    /\ args.output_audio_path = PathObj(S_new_sub_o_mp3)
    /\ hist.fs0[Cwd \o << <<"new">> >>] = "absent"
    /\ fs[Cwd \o << <<"new">>, <<"sub">> >>] = "dir"
    /\ fs[Cwd \o << <<"new">>, <<"sub">>, <<"o", ".", "mp3">> >>] = "empty"

\* C15: the fp16 flag handed to the model is (the loaded model's device is
\* cuda), whatever the job's use_fp16 says; the job with the other use_fp16
\* value would have produced the very same invocation.
C15_PrecisionFromDeviceOnly ==
    (args.feature = "transcribe" /\ cnt.port = 1) =>
        /\ loc.invocation.fp16 = (loc.model.device = "cuda")
        /\ loc.invocation.audio = PathStr(Resolve(loc.tjob.audio_file_path))
        /\ \A b \in BOOLEAN :
              ModelInvocation(loc.model, [loc.tjob EXCEPT !.use_fp16 = b])
                  = loc.invocation

\* C15 witness: a job asking for fp16 was run without it on the cpu model.
C15_Witness ==
    /\ args.feature = "transcribe"
    /\ cnt.port = 1
    /\ loc.tjob.use_fp16
    /\ loc.model.device = "cpu"
    /\ ~loc.invocation.fp16

\* C16: whatever the model call raises reaches the service as a
\* TranscriptionError that is not the model-load error, after an adapter was
\* built; the call then ends by returning None and never by raising.
C16_RunFailureReturnsNone ==
    (args.feature = "transcribe" /\ exc.at = "run") =>
        /\ cnt.adapters = 1
        /\ exc.cls = "TranscriptionError"
        /\ ~IsInstance(exc, "WhisperModelError")
        /\ (pc = "idle" => outcome = ReturnedNone)

\* C16 witness: the model was loaded, its call raised RuntimeError, and the
\* service call has ended with None.
C16_Witness ==
    /\ TranscribeDone
    /\ cnt.adapters = 1
    /\ exc.at = "run"
    /\ "RuntimeError" \in exc.msg
    /\ outcome = ReturnedNone

\* The use case has looked at the input file in this call.
ValidationReached == exc.at = "validate" \/ cnt.validated = 1

\* C17: in both service functions the input is validated only after the
\* adapter was fully built; a call whose adapter construction fails never
\* reaches validation and ends by raising that setup error, whatever the input.
C17_AdapterBeforeValidation ==
    /\ ValidationReached => cnt.adapters = 1
    /\ exc.at = "init" =>
          /\ cnt.adapters = 0
          /\ ~ValidationReached
          /\ exc.cls = (IF args.feature = "extract"
                        THEN "FFmpegBinaryNotFoundError" ELSE "WhisperModelError")
          /\ (pc = "idle" => outcome = Raised(exc))

\* C17 witness: a call on a video that does not exist, with no ffmpeg
\* installed, has ended by raising the binary-not-found error.
C17_Witness ==
    /\ ExtractDone
    /\ ~Exists(fs, Path(args.video_file_path))
    /\ exc.at = "init"
    /\ outcome = Raised(exc)
    /\ exc.cls = "FFmpegBinaryNotFoundError"

\* The three ways a call of extract_audio_from_video can end.
EndsWithPath == outcome.path # NoPath /\ outcome = ReturnedPath(outcome.path)
EndsWithNone == outcome = ReturnedNone
EndsWithBinaryNotFound ==
    outcome = Raised(exc) /\ exc.cls = "FFmpegBinaryNotFoundError"

====
